---- MODULE Spec2Model ----
(***************************************************************************)
(* Proxy pool (ProxyManager), session log router (logEmitter and the       *)
(* /api/logs listeners) and the request handlers of the verification       *)
(* server.  Strings are sequences of one-character strings, so that        *)
(* trim, split, startsWith and parseInt are computed as the code does.     *)
(***************************************************************************)
EXTENDS Integers, Sequences, FiniteSets, TLC

\* ------------------------------------------------------------------ bounds
\* Longest proxy list text (in lines) a load request carries.
MaxLines == 2
\* Largest value of the rotation cursor the model explores.
MaxCursor == 3
\* Largest number of markFailed and markSuccess reports in one run.
MaxMarks == 2
\* Number of progress lines the workflow logs after its first await.
WfLogs == 1
\* Longest list of lines a direct call of a loader passes.
MaxLoadLines == 3
\* Most ':'-separated fields of a line given to the parser.
MaxFields == 5
\* Longest docTypes list given to generateDocumentsParallel.
MaxDocs == 3
\* Most browsers puppeteer.launch starts in one run.
MaxLaunches == 3

\* ------------------------------------------------------------ JS strings
\* JS null, distinct from every string (a string is a sequence of characters).
Null == <<"<null>">>

\* What getNext (null) and getRandom (undefined) return on an empty pool.
NoProxy == [raw |-> Null]

IsSpace(c) == c \in {" ", "\n", "\t"}

IsDigit(c) == c \in {"0", "1", "2", "3", "4", "5", "6", "7", "8", "9"}

DigitVal(c) ==
    CASE c = "0" -> 0 [] c = "1" -> 1 [] c = "2" -> 2 [] c = "3" -> 3
      [] c = "4" -> 4 [] c = "5" -> 5 [] c = "6" -> 6 [] c = "7" -> 7
      [] c = "8" -> 8 [] c = "9" -> 9

RECURSIVE TrimStart(_)
TrimStart(s) ==
    IF s # <<>> /\ IsSpace(Head(s)) THEN TrimStart(Tail(s)) ELSE s

RECURSIVE TrimEnd(_)
TrimEnd(s) ==
    IF s # <<>> /\ IsSpace(s[Len(s)]) THEN TrimEnd(SubSeq(s, 1, Len(s) - 1)) ELSE s

\* String.prototype.trim
Trim(s) == TrimEnd(TrimStart(s))

\* String.prototype.split(sep) for a one-character separator: always at
\* least one part; the parts are the maximal runs between separators.
RECURSIVE SplitAcc(_, _, _)
SplitAcc(s, sep, cur) ==
    IF s = <<>> THEN <<cur>>
    ELSE IF Head(s) = sep THEN <<cur>> \o SplitAcc(Tail(s), sep, <<>>)
    ELSE SplitAcc(Tail(s), sep, Append(cur, Head(s)))

Split(s, sep) == SplitAcc(s, sep, <<>>)

\* Array.prototype.join(sep)
RECURSIVE Join(_, _)
Join(parts, sep) ==
    IF parts = <<>> THEN <<>>
    ELSE IF Len(parts) = 1 THEN parts[1]
    ELSE parts[1] \o <<sep>> \o Join(Tail(parts), sep)

StartsWith(s, c) == s # <<>> /\ Head(s) = c

RECURSIVE DigitsValue(_, _)
DigitsValue(s, acc) ==
    IF s # <<>> /\ IsDigit(Head(s))
    THEN DigitsValue(Tail(s), acc * 10 + DigitVal(Head(s)))
    ELSE acc

\* parseInt(s): leading white space skipped, optional sign, then the longest
\* run of decimal digits; NaN when there is no digit.
ParseInt(s) ==
    LET t == TrimStart(s)
        neg == t # <<>> /\ Head(t) = "-"
        u == IF t # <<>> /\ Head(t) \in {"-", "+"} THEN Tail(t) ELSE t
    IN  IF u = <<>> \/ ~IsDigit(Head(u))
        THEN [isNaN |-> TRUE, value |-> 0]
        ELSE [isNaN |-> FALSE,
              value |-> IF neg THEN 0 - DigitsValue(u, 0) ELSE DigitsValue(u, 0)]

\* String(n) for a non-negative integer n.
RECURSIVE DecimalString(_)
DecimalString(n) ==
    LET digit == CHOOSE c \in {"0", "1", "2", "3", "4", "5", "6", "7", "8", "9"} :
                     DigitVal(c) = n % 10
    IN  IF n < 10 THEN <<digit>> ELSE DecimalString(n \div 10) \o <<digit>>

\* `${n}` for an integer n.
NumberToString(n) == IF n < 0 THEN <<"-">> \o DecimalString(0 - n) ELSE DecimalString(n)

\* str.includes(sub)
Includes(str, sub) ==
    \E i \in 1..(Len(str) - Len(sub) + 1) : SubSeq(str, i, i + Len(sub) - 1) = sub

\* A UTF-16 surrogate with no partner, as one character of a string.
LoneSurrogate == "<D800>"

\* The characters encodeURIComponent leaves as they are.
Unreserved ==
    {"a", "b", "c", "d", "e", "f", "g", "h", "i", "j", "k", "l", "m", "n", "o", "p", "q",
     "r", "s", "t", "u", "v", "w", "x", "y", "z", "A", "B", "C", "D", "E", "F", "G", "H",
     "I", "J", "K", "L", "M", "N", "O", "P", "Q", "R", "S", "T", "U", "V", "W", "X", "Y",
     "Z", "0", "1", "2", "3", "4", "5", "6", "7", "8", "9", "-", "_", ".", "!", "~", "*",
     "'", "(", ")"}

\* The escape of one character of the model's alphabet.
EncodeChar(c) ==
    CASE c \in Unreserved -> <<c>>
      [] c = ":" -> <<"%", "3", "A">>
      [] c = "@" -> <<"%", "4", "0">>
      [] c = "#" -> <<"%", "2", "3">>
      [] c = " " -> <<"%", "2", "0">>
      [] OTHER -> <<"%", "?", "?">>

RECURSIVE EncodeAll(_)
EncodeAll(str) ==
    IF str = <<>> THEN <<>> ELSE EncodeChar(Head(str)) \o EncodeAll(Tail(str))

\* encodeURIComponent(value): throws URIError on a lone surrogate; null is
\* converted to the string "null" first.
encodeURIComponent(value) ==
    LET str == IF value = Null THEN <<"n", "u", "l", "l">> ELSE value
    IN  IF \E i \in 1..Len(str) : str[i] = LoneSurrogate
        THEN [threw |-> TRUE, value |-> <<>>]
        ELSE [threw |-> FALSE, value |-> EncodeAll(str)]

\* ------------------------------------------------------------- parseProxy
\* The value parseProxy returns for a line it rejects.
NoParse == [raw |-> Null, rejected |-> TRUE]

\* parseProxy taking the fourth field alone as the password.
parseProxy_PasswordIsFourthField(proxyStr) ==
    LET parts == Split(Trim(proxyStr), ":")
    IN  IF Len(parts) < 2 THEN NoParse
        ELSE LET host == parts[1]
                 port == ParseInt(parts[2])
                 username == IF Len(parts) > 2 THEN parts[3] ELSE Null
                 password == IF Len(parts) > 3 THEN parts[4] ELSE Null
             IN  IF host = <<>> \/ port.isNaN THEN NoParse
                 ELSE [host |-> host, port |-> port.value, username |-> username,
                       password |-> password, raw |-> proxyStr]

parseProxy(proxyStr) ==
    LET parts == Split(Trim(proxyStr), ":")
    IN  IF Len(parts) < 2 THEN NoParse
        ELSE LET host == parts[1]
                 port == ParseInt(parts[2])
                 username == IF Len(parts) > 2 THEN parts[3] ELSE Null
                 password == IF Len(parts) > 3
                             THEN Join(SubSeq(parts, 4, Len(parts)), ":")
                             ELSE Null
             IN  IF host = <<>> \/ port.isNaN THEN NoParse
                 ELSE [host |-> host, port |-> port.value, username |-> username,
                       password |-> password, raw |-> proxyStr]

\* The parsed descriptors of a list of lines, in order, rejected lines dropped.
RECURSIVE ParseAll(_)
ParseAll(lines) ==
    IF lines = <<>> THEN <<>>
    ELSE LET parsed == parseProxy(Head(lines))
         IN  IF parsed = NoParse THEN ParseAll(Tail(lines))
             ELSE <<parsed>> \o ParseAll(Tail(lines))

KeepLine(l) == Len(l) > 0 /\ ~StartsWith(l, "#")

RECURSIVE TrimEach(_)
TrimEach(lines) ==
    IF lines = <<>> THEN <<>> ELSE <<Trim(Head(lines))>> \o TrimEach(Tail(lines))

\* loadFromString giving up at the first line parseProxy rejects.
loadFromStringProxies_StopsAtRejected(proxyListStr) ==
    LET lines == SelectSeq(TrimEach(Split(proxyListStr, "\n")), KeepLine)
        bad == {i \in 1..Len(lines) : parseProxy(lines[i]) = NoParse}
        upto == IF bad = {} THEN Len(lines)
                ELSE (CHOOSE i \in bad : \A j \in bad : i <= j) - 1
    IN  ParseAll(SubSeq(lines, 1, upto))

\* loadFromString: the descriptor sequence the pool holds after the load.
loadFromStringProxies(proxyListStr) ==
    ParseAll(SelectSeq(TrimEach(Split(proxyListStr, "\n")), KeepLine))

\* loadFromArray: the descriptor sequence the pool holds after the load.
loadFromArrayProxies(proxyArray) == ParseAll(proxyArray)

\* return this.proxies.length
loadFromStringReturn(proxyListStr) == Len(loadFromStringProxies(proxyListStr))

loadFromArrayReturn(proxyArray) == Len(loadFromArrayProxies(proxyArray))

\* ------------------------------------------------------------ model inputs
\* The configuration lines a load request may carry.
LineA == <<"a", ":", "8", "0">>
LineB == <<"b", ":", "8", "1">>
LineBad == <<"x", ":", "y">>
LineComment == <<"#", "a", ":", "8", "0">>

PoolLines == {LineA, LineB, LineBad, LineComment}

\* Every list of 0..MaxLines configuration lines.
LineLists == UNION {[1..n -> PoolLines] : n \in 0..MaxLines}

\* The newline-separated texts a load request may carry ("" included).
Texts == {Join(ls, "\n") : ls \in LineLists}

\* loadFromString's result for each of these texts.
LoadedFrom == [text \in Texts |-> loadFromStringProxies(text)]

\* A line with blanks around it, and the lines a caller of the loaders passes.
LinePadded == <<" ", "b", ":", "8", "1", " ">>

LoadLines == {LineA, LinePadded, LineBad, LineComment}

\* Every list of 0..MaxLoadLines such lines.
LoadLists == UNION {[1..n -> LoadLines] : n \in 0..MaxLoadLines}

\* A line in upper case, and the lists of proxy strings a caller of
\* loadFromArray passes that differ in case or in the blanks around them.
LineUpper == <<"A", ":", "8", "0">>

KeyLines == {LineA, LineUpper, LineB, LinePadded}

KeyLists == UNION {[1..n -> KeyLines] : n \in 0..MaxLoadLines}

\* The fields the lines given to the parser are made of: a name, nothing, and
\* port fields written 80, 080, 0 and 8a.
ParseFields ==
    {<<"a">>, <<>>, <<"8", "0">>, <<"0", "8", "0">>, <<"0">>, <<"8", "a">>}

\* Every line of 1..MaxFields such fields, as written and with blanks around it.
ParseInputs ==
    LET lines == {Join(fs, ":") : fs \in UNION {[1..n -> ParseFields] : n \in 1..MaxFields}}
    IN  lines \cup {<<" ">> \o l \o <<" ">> : l \in lines}

\* Hosts, port fields and credential fields of the lines whose descriptors
\* are given to testProxy: p.net, proxy-socks.net, socks, sock.net, SOCKS.net;
\* no credentials, a user, a user and a password, a user name holding a lone
\* surrogate, and a password with '@' and ':'.
AgentHosts ==
    {<<"p", ".", "n", "e", "t">>,
     <<"p", "r", "o", "x", "y", "-", "s", "o", "c", "k", "s", ".", "n", "e", "t">>,
     <<"s", "o", "c", "k", "s">>,
     <<"s", "o", "c", "k", ".", "n", "e", "t">>,
     <<"S", "O", "C", "K", "S", ".", "n", "e", "t">>}

AgentPorts ==
    {<<"1", "0", "8", "0">>, <<"3", "1", "2", "8">>, <<"1", "0", "8">>,
     <<"1", "0", "8", "0", "0">>}

AgentCredentials ==
    {<<>>, <<<<"u">>>>, <<<<"u">>, <<"p">>>>, <<<<"u", LoneSurrogate>>, <<"p">>>>,
     <<<<"u">>, <<"p", "@">>, <<"q">>>>}

AgentInputs ==
    {parseProxy(Join(<<host, port>> \o cred, ":")) :
        host \in AgentHosts, port \in AgentPorts, cred \in AgentCredentials}

\* The document types generateDocumentsParallel knows, one it does not, and
\* the docTypes lists a caller passes.
KnownDocTypes == {"studentCard", "payslip", "teacherCard"}

DocTypes == KnownDocTypes \cup {"transcript"}

DocTypeLists == UNION {[1..n -> DocTypes] : n \in 0..MaxDocs}

\* Session identifiers a caller supplies; Undefined is an absent field.
NullSid == "<null>"
Undefined == "<undefined>"
SessionIds == {"S1", "S2"}
Reqs == {1, 2}
Subs == {1, 2}

\* JS truthiness of a session identifier value.
Truthy(x) == x \notin {"", NullSid, Undefined}

\* `session_${Date.now()}_${random}`: a fresh identifier per request.
GeneratedSid(r) == IF r = 1 THEN "session_1" ELSE "session_2"

\* --------------------------------------------------------------- state
VARIABLES
    proxies,          \* ProxyManager.proxies: sequence of descriptors
    currentIndex,     \* ProxyManager.currentIndex: the rotation cursor
    failedProxies,    \* ProxyManager.failedProxies: set of raw lines
    proxyStats,       \* ProxyManager.proxyStats: raw line -> {success, fail}
    holding,          \* the descriptor a workflow got from getNext/getRandom
    probePc,          \* /api/proxies/test: "idle" or "probing" (awaiting testProxy)
    probeProxy,       \* /api/proxies/test: const proxy
    globalEmitLog,    \* global.emitLog: the session it is bound to, NullSid for the default
    listening,        \* logEmitter listeners: listening[s] iff sendLog of s is registered
    closed,           \* the client of subscriber s has closed its stream
    subSid,           \* /api/logs: const sessionId of subscriber s
    received,         \* the events sendLog of s wrote to its response stream
    pc,               \* /api/verify: "idle", "running" (awaiting verifySheerID), "done"
    sid,              \* /api/verify: const sid
    previousEmitLog,  \* /api/verify: const previousEmitLog
    wfStep,           \* progress lines the workflow of request r has logged
    logged,           \* the events request r and its workflow logged, as published
    response,         \* /api/verify: the body given to res.json
    lastPick,         \* how the last getNext or getRandom call chose its result
    rotation,         \* results of getNext since the last load
    clean,            \* no markFailed since the last load
    markCalls,        \* raw line -> the markSuccess and markFailed calls made for it
    loadArg,          \* the lines a caller of the loaders passes to them
    parseArg,         \* the argument of a parseProxy call
    parseRet,         \* what that call returned, NotParsed before it
    agentArg,         \* the descriptor a caller gives to testProxy
    agentRet,         \* what that call did and resolved to, NotCalled before it
    docTypes,         \* generateDocumentsParallel: the docTypes argument
    docPc,            \* generateDocumentsParallel: "idle", "awaiting", "returned", "threw"
    docPromises,      \* generateDocumentsParallel: const promises
    docResults,       \* generateDocumentsParallel: the list it returned
    sharedBrowser,    \* let sharedBrowser: a browser, or NoBrowser for null
    launches,         \* the browsers puppeteer.launch has started so far: 1..launches
    connectedBrowsers, \* the started browsers whose isConnected() is true
    getPc,            \* getBrowser call of caller c: "idle", "launching", "returned", "threw"
    getRet,           \* the browser that call returned
    closing           \* closeBrowser: the browser whose close() it awaits, or NoBrowser

poolVars == <<proxies, currentIndex, failedProxies, proxyStats>>
routerVars == <<globalEmitLog, listening, closed, subSid, received>>
reqVars == <<pc, sid, previousEmitLog, wfStep, logged, response>>
probeVars == <<probePc, probeProxy>>
traceVars == <<lastPick, rotation, clean>>
parseVars == <<parseArg, parseRet>>
agentVars == <<agentArg, agentRet>>
docVars == <<docTypes, docPc, docPromises, docResults>>
browserVars == <<sharedBrowser, launches, connectedBrowsers, getPc, getRet, closing>>
auxVars == <<markCalls, loadArg, parseArg, parseRet, agentArg, agentRet, docTypes, docPc,
             docPromises, docResults, sharedBrowser, launches, connectedBrowsers, getPc,
             getRet, closing>>
vars == <<proxies, currentIndex, failedProxies, proxyStats, holding, probePc,
          probeProxy, globalEmitLog, listening, closed, subSid, received, pc,
          sid, previousEmitLog, wfStep, logged, response, lastPick, rotation, clean,
          markCalls, loadArg, parseArg, parseRet, agentArg, agentRet, docTypes, docPc,
          docPromises, docResults, sharedBrowser, launches, connectedBrowsers, getPc,
          getRet, closing>>

NoResponse ==
    [sent |-> FALSE, status |-> 0, success |-> FALSE, error |-> "", sessionId |-> NullSid]

\* The proxy field a run-verification request may carry (Null: none).
ProxyFields == {Null, <<" ">>, LineA}

\* The state the server starts in: the constructor of ProxyManager, no
\* subscriber, no request.
InitProgram ==
    /\ proxies = <<>>
    /\ currentIndex = 0
    /\ failedProxies = {}
    /\ proxyStats = <<>>
    /\ holding = NoProxy
    /\ probePc = "idle"
    /\ probeProxy = NoProxy
    /\ globalEmitLog = NullSid
    /\ listening = [s \in Subs |-> FALSE]
    /\ closed = [s \in Subs |-> FALSE]
    /\ subSid = [s \in Subs |-> Undefined]
    /\ received = [s \in Subs |-> <<>>]
    /\ pc = [r \in Reqs |-> "idle"]
    /\ sid = [r \in Reqs |-> NullSid]
    /\ previousEmitLog = [r \in Reqs |-> NullSid]
    /\ wfStep = [r \in Reqs |-> 0]
    /\ logged = [r \in Reqs |-> <<>>]
    /\ response = [r \in Reqs |-> NoResponse]
    /\ lastPick = "none"
    /\ rotation = <<>>
    /\ clean = TRUE
    /\ markCalls = <<>>

\* parseRet before parseProxy was called.
NotParsed == [raw |-> Null, pending |-> TRUE]

\* agentRet before testProxy was called, and its result before it resolved.
NotCalled == [called |-> FALSE]

NoResult == [none |-> TRUE]

\* The callers of getBrowser, and sharedBrowser's null.
BrowserCallers == {1, 2}

NoBrowser == 0

\* let sharedBrowser = null, and no getBrowser or closeBrowser call yet.
NoBrowserYet ==
    /\ sharedBrowser = NoBrowser
    /\ launches = 0
    /\ connectedBrowsers = {}
    /\ getPc = [c \in BrowserCallers |-> "idle"]
    /\ getRet = [c \in BrowserCallers |-> NoBrowser]
    /\ closing = NoBrowser

\* No testProxy call of a caller and no generateDocumentsParallel call under way.
IdleTools ==
    /\ agentArg = NoProxy
    /\ agentRet = NotCalled
    /\ docTypes = <<>>
    /\ docPc = "idle"
    /\ docPromises = <<>>
    /\ docResults = <<>>
    /\ NoBrowserYet

Init ==
    /\ InitProgram
    /\ loadArg = <<>>
    /\ parseArg = <<>>
    /\ parseRet = NotParsed
    /\ IdleTools

\* The same start, for a caller about to test some descriptor.
InitAgent ==
    /\ InitProgram
    /\ loadArg = <<>>
    /\ parseArg = <<>>
    /\ parseRet = NotParsed
    /\ agentArg \in AgentInputs
    /\ agentRet = NotCalled
    /\ docTypes = <<>>
    /\ docPc = "idle"
    /\ docPromises = <<>>
    /\ docResults = <<>>
    /\ NoBrowserYet

\* The same start, for a caller about to generate some list of documents.
InitDocs ==
    /\ InitProgram
    /\ loadArg = <<>>
    /\ parseArg = <<>>
    /\ parseRet = NotParsed
    /\ agentArg = NoProxy
    /\ agentRet = NotCalled
    /\ docTypes \in DocTypeLists
    /\ docPc = "idle"
    /\ docPromises = <<>>
    /\ docResults = <<>>
    /\ NoBrowserYet

\* The same start, for a caller about to pass some list of proxy strings to
\* loadFromArray.
InitKeys ==
    /\ InitProgram
    /\ loadArg \in KeyLists
    /\ parseArg = <<>>
    /\ parseRet = NotParsed
    /\ IdleTools

\* The same start, for a caller about to parse some line.
InitParse ==
    /\ InitProgram
    /\ loadArg = <<>>
    /\ parseArg \in ParseInputs
    /\ parseRet = NotParsed
    /\ IdleTools

\* The same start, for a caller about to pass some list of lines to the loaders.
InitLoad ==
    /\ InitProgram
    /\ loadArg \in LoadLists
    /\ parseArg = <<>>
    /\ parseRet = NotParsed
    /\ IdleTools

\* ------------------------------------------------------------ ProxyManager
\* The failed set consulted with keys compared after trimming.
NotFailed_ByTrimmedKey(F, p) == \A k \in F : Trim(k) # Trim(p.raw)

\* !this.failedProxies.has(p.raw)
NotFailed(F, p) == p.raw \notin F

\* The filter left out: every descriptor counts as available.
Available_Unfiltered(P, F) == P

\* this.proxies.filter(p => !this.failedProxies.has(p.raw))
Available(P, F) == SelectSeq(P, LAMBDA p : NotFailed(F, p))

count == Len(proxies)

\* availableCount computed from the sizes of the pool and of the failed set.
availableCountOf_BySetSize(P, F) == Len(P) - Cardinality(F)

\* get availableCount()
availableCountOf(P, F) == Len(Available(P, F))

availableCount == availableCountOf(proxies, failedProxies)

\* The raw lines of the loaded descriptors.
Keys(P) == {P[i].raw : i \in 1..Len(P)}

\* getNext indexing one past the cursor.
getNextOutcome_OffByOne(P, idx, F) ==
    IF Len(P) = 0
    THEN [ret |-> NoProxy, currentIndex |-> idx, failedProxies |-> F, warned |-> FALSE]
    ELSE LET availableProxies == Available(P, F)
         IN  IF Len(availableProxies) = 0
             THEN [ret |-> P[1], currentIndex |-> idx, failedProxies |-> {},
                   warned |-> TRUE]
             ELSE [ret |-> availableProxies[((idx + 1) % Len(availableProxies)) + 1],
                   currentIndex |-> idx + 1, failedProxies |-> F, warned |-> FALSE]

\* getNext choosing by the cursor after the amnesty, not the first descriptor.
getNextOutcome_AmnestyAtCursor(P, idx, F) ==
    IF Len(P) = 0
    THEN [ret |-> NoProxy, currentIndex |-> idx, failedProxies |-> F, warned |-> FALSE]
    ELSE LET availableProxies == Available(P, F)
         IN  IF Len(availableProxies) = 0
             THEN [ret |-> P[(idx % Len(P)) + 1], currentIndex |-> idx,
                   failedProxies |-> {}, warned |-> TRUE]
             ELSE [ret |-> availableProxies[(idx % Len(availableProxies)) + 1],
                   currentIndex |-> idx + 1, failedProxies |-> F, warned |-> FALSE]

\* getNext advancing the cursor on the amnesty path too.
getNextOutcome_AmnestyAdvances(P, idx, F) ==
    IF Len(P) = 0
    THEN [ret |-> NoProxy, currentIndex |-> idx, failedProxies |-> F, warned |-> FALSE]
    ELSE LET availableProxies == Available(P, F)
         IN  IF Len(availableProxies) = 0
             THEN [ret |-> P[1], currentIndex |-> idx + 1, failedProxies |-> {},
                   warned |-> TRUE]
             ELSE [ret |-> availableProxies[(idx % Len(availableProxies)) + 1],
                   currentIndex |-> idx + 1, failedProxies |-> F, warned |-> FALSE]

\* getNext leaving the cursor where it is.
getNextOutcome_CursorStays(P, idx, F) ==
    IF Len(P) = 0
    THEN [ret |-> NoProxy, currentIndex |-> idx, failedProxies |-> F, warned |-> FALSE]
    ELSE LET availableProxies == Available(P, F)
         IN  IF Len(availableProxies) = 0
             THEN [ret |-> P[1], currentIndex |-> idx, failedProxies |-> {},
                   warned |-> TRUE]
             ELSE [ret |-> availableProxies[(idx % Len(availableProxies)) + 1],
                   currentIndex |-> idx, failedProxies |-> F, warned |-> FALSE]

\* getNext: the returned descriptor, the cursor and the failed set after the
\* call, and whether the "all proxies failed" warning was logged.
getNextOutcome(P, idx, F) ==
    IF Len(P) = 0
    THEN [ret |-> NoProxy, currentIndex |-> idx, failedProxies |-> F, warned |-> FALSE]
    ELSE LET availableProxies == Available(P, F)
         IN  IF Len(availableProxies) = 0
             THEN [ret |-> P[1], currentIndex |-> idx, failedProxies |-> {},
                   warned |-> TRUE]
             ELSE [ret |-> availableProxies[(idx % Len(availableProxies)) + 1],
                   currentIndex |-> idx + 1, failedProxies |-> F, warned |-> FALSE]

\* The values Math.floor(Math.random() * n) can take.
RandomIndexes(n) == IF n = 0 THEN {0} ELSE 0..(n - 1)

\* The values of Math.floor(Math.random() * length) in getRandom: length is
\* that of the non-failed descriptors, or of the whole pool when all failed.
RandomChoices(P, F) ==
    LET n == Len(SelectSeq(P, LAMBDA p : NotFailed(F, p)))
    IN  RandomIndexes(IF n = 0 THEN Len(P) ELSE n)

\* getRandom choosing among all descriptors, failed ones too.
getRandomOutcome_IgnoresFailed(P, F, rnd) ==
    LET available == Available(P, F)
    IN  IF Len(available) = 0
        THEN [ret |-> IF rnd + 1 \in DOMAIN P THEN P[rnd + 1] ELSE NoProxy,
              failedProxies |-> {}, amnesty |-> TRUE]
        ELSE [ret |-> P[rnd + 1], failedProxies |-> F, amnesty |-> FALSE]

\* getRandom, with rnd the value of Math.floor(Math.random() * length).
getRandomOutcome(P, F, rnd) ==
    LET available == Available(P, F)
    IN  IF Len(available) = 0
        THEN [ret |-> IF rnd + 1 \in DOMAIN P THEN P[rnd + 1] ELSE NoProxy,
              failedProxies |-> {}, amnesty |-> TRUE]
        ELSE [ret |-> available[rnd + 1], failedProxies |-> F, amnesty |-> FALSE]

\* A read of the stats that never sees an earlier write.
StatsOf_StartsOver(stats, raw) ==
    [success |-> 0, fail |-> 0]

\* this.proxyStats.get(raw) || { success: 0, fail: 0 }
StatsOf(stats, raw) ==
    IF raw \in DOMAIN stats THEN stats[raw] ELSE [success |-> 0, fail |-> 0]

\* this.proxyStats.set(raw, value)
StatsSet(stats, raw, value) ==
    [k \in DOMAIN stats \cup {raw} |-> IF k = raw THEN value ELSE stats[k]]

\* The number of reports the stats record so far.
RECURSIVE SumMarks(_, _)
SumMarks(stats, keys) ==
    IF keys = {} THEN 0
    ELSE LET k == CHOOSE x \in keys : TRUE
         IN  stats[k].success + stats[k].fail + SumMarks(stats, keys \ {k})

TotalMarks == SumMarks(proxyStats, DOMAIN proxyStats)

\* markFailed toggling the key: a second report takes it out again.
markFailedOutcome_Toggle(F, stats, proxy) ==
    IF proxy = NoProxy THEN [failedProxies |-> F, proxyStats |-> stats]
    ELSE [failedProxies |-> IF proxy.raw \in F THEN F \ {proxy.raw}
                            ELSE F \cup {proxy.raw},
          proxyStats |-> StatsSet(stats, proxy.raw,
              [StatsOf(stats, proxy.raw) EXCEPT !.fail = @ + 1])]

\* markFailed: the failed set and the stats after the call.
markFailedOutcome(F, stats, proxy) ==
    IF proxy = NoProxy THEN [failedProxies |-> F, proxyStats |-> stats]
    ELSE [failedProxies |-> F \cup {proxy.raw},
          proxyStats |-> StatsSet(stats, proxy.raw,
              [StatsOf(stats, proxy.raw) EXCEPT !.fail = @ + 1])]

\* markSuccess counting the report but leaving the key in the failed set.
markSuccessOutcome_KeepsFailed(F, stats, proxy) ==
    IF proxy = NoProxy THEN [failedProxies |-> F, proxyStats |-> stats]
    ELSE [failedProxies |-> F,
          proxyStats |-> StatsSet(stats, proxy.raw,
              [StatsOf(stats, proxy.raw) EXCEPT !.success = @ + 1])]

\* markSuccess: the failed set and the stats after the call.
markSuccessOutcome(F, stats, proxy) ==
    IF proxy = NoProxy THEN [failedProxies |-> F, proxyStats |-> stats]
    ELSE [failedProxies |-> F \ {proxy.raw},
          proxyStats |-> StatsSet(stats, proxy.raw,
              [StatsOf(stats, proxy.raw) EXCEPT !.success = @ + 1])]

\* markFailed taking the reported descriptor out of the pool.
markFailedState_DropsDescriptor(P, idx, F, stats, proxy) ==
    LET o == markFailedOutcome(F, stats, proxy)
    IN  [proxies |-> SelectSeq(P, LAMBDA q : q.raw # proxy.raw), currentIndex |-> idx,
         failedProxies |-> o.failedProxies, proxyStats |-> o.proxyStats]

\* The fields of the manager after markFailed(proxy): the method assigns
\* neither this.proxies nor this.currentIndex.
markFailedState(P, idx, F, stats, proxy) ==
    LET o == markFailedOutcome(F, stats, proxy)
    IN  [proxies |-> P, currentIndex |-> idx,
         failedProxies |-> o.failedProxies, proxyStats |-> o.proxyStats]

\* The fields of the manager after markSuccess(proxy).
markSuccessState(P, idx, F, stats, proxy) ==
    LET o == markSuccessOutcome(F, stats, proxy)
    IN  [proxies |-> P, currentIndex |-> idx,
         failedProxies |-> o.failedProxies, proxyStats |-> o.proxyStats]

\* The calls made so far, with one more call of kind ("success" or "fail")
\* for the key of proxy; a call with no descriptor is a call for no key.
CallsAfter(calls, proxy, kind) ==
    IF proxy = NoProxy THEN calls
    ELSE LET old == IF proxy.raw \in DOMAIN calls THEN calls[proxy.raw]
                    ELSE [success |-> 0, fail |-> 0]
             new == IF kind = "fail" THEN [old EXCEPT !.fail = @ + 1]
                    ELSE [old EXCEPT !.success = @ + 1]
         IN  [k \in DOMAIN calls \cup {proxy.raw} |-> IF k = proxy.raw THEN new ELSE calls[k]]

\* The values of createAgent's result and of the fields of an axios config.
NoAgent == [kind |-> "none"]

NoUrl == <<>>

\* getAxiosConfig's `{}`: no agent and axios left to its own proxy handling.
EmptyConfig == [httpAgent |-> NoAgent, httpsAgent |-> NoAgent, proxy |-> "unset"]

\* buildProxyUrl(proxy, protocol): the URL, or an exception of
\* encodeURIComponent that nothing in the method catches.
buildProxyUrl(proxy, protocol) ==
    IF proxy = NoProxy THEN [threw |-> FALSE, url |-> NoUrl]
    ELSE LET hasUser == proxy.username # Null /\ proxy.username # <<>>
             user == encodeURIComponent(proxy.username)
             pass == encodeURIComponent(proxy.password)
             auth == IF hasUser THEN user.value \o <<":">> \o pass.value \o <<"@">>
                     ELSE <<>>
         IN  IF hasUser /\ (user.threw \/ pass.threw)
             THEN [threw |-> TRUE, url |-> NoUrl]
             ELSE [threw |-> FALSE,
                   url |-> protocol \o <<":", "/", "/">> \o auth \o proxy.host
                             \o <<":">> \o NumberToString(proxy.port)]

\* isSocks decided by the port alone.
isSocks_PortOnly(proxy) == proxy.port = 1080

\* const isSocks = proxy.port === 1080 || proxy.host.includes('socks')
isSocks(proxy) == proxy.port = 1080 \/ Includes(proxy.host, <<"s", "o", "c", "k", "s">>)

\* createAgent(proxy): constructorThrows says whether the agent constructor
\* throws for the URL; emitted are the calls of global.emitLog.
createAgent(proxy, constructorThrows) ==
    IF proxy = NoProxy THEN [threw |-> FALSE, agent |-> NoAgent, emitted |-> <<>>]
    ELSE LET proxyUrl == buildProxyUrl(proxy, IF isSocks(proxy)
                                              THEN <<"s", "o", "c", "k", "s", "5">>
                                              ELSE <<"h", "t", "t", "p">>)
         IN  IF proxyUrl.threw
             THEN [threw |-> TRUE, agent |-> NoAgent, emitted |-> <<>>]
             ELSE IF constructorThrows
             THEN [threw |-> FALSE, agent |-> NoAgent,
                   emitted |-> <<[message |-> <<"failed to create agent", 0, 0>>,
                                  type |-> "warn"]>>]
             ELSE [threw |-> FALSE,
                   agent |-> [kind |-> IF isSocks(proxy) THEN "SocksProxyAgent"
                                       ELSE "HttpsProxyAgent",
                              url |-> proxyUrl.url],
                   emitted |-> <<>>]

\* getAxiosConfig(proxy)
getAxiosConfig(proxy, constructorThrows) ==
    IF proxy = NoProxy THEN [threw |-> FALSE, config |-> EmptyConfig, emitted |-> <<>>]
    ELSE LET a == createAgent(proxy, constructorThrows)
         IN  [threw |-> a.threw,
              config |-> IF a.agent = NoAgent THEN EmptyConfig
                         ELSE [httpAgent |-> a.agent, httpsAgent |-> a.agent,
                               proxy |-> "false"],
              emitted |-> a.emitted]

\* The value testProxy resolves to once axios.get has settled: its try
\* block's return when the request succeeded, its catch block's otherwise.
testProxyResult(proxy, requestOk) ==
    IF requestOk
    THEN [working |-> TRUE, error |-> "",
          proxy |-> proxy.host \o <<":">> \o NumberToString(proxy.port)]
    ELSE [working |-> FALSE, error |-> "err.message",
          proxy |-> proxy.host \o <<":">> \o NumberToString(proxy.port)]

\* ------------------------------------------------------------- log router
\* const logData = { time, message, type, sessionId }
Event(message, type, sessionId) ==
    [message |-> message, type |-> type, sessionId |-> sessionId]

\* sendLog with events of no session (null) written to every session's stream.
sendLogWrites_NullToAll(sessionId, data) ==
    Truthy(sessionId) /\ (data.sessionId = sessionId \/ data.sessionId = NullSid)

\* sendLog's condition: sessionId && data.sessionId === sessionId
sendLogWrites(sessionId, data) == Truthy(sessionId) /\ data.sessionId = sessionId

\* An emit that still calls the sendLog of a stream whose client has gone.
Emit_CallsRemovedListeners(data) ==
    received' = [s \in Subs |->
        IF sendLogWrites(subSid[s], data)
        THEN Append(received[s], data) ELSE received[s]]

\* logEmitter.emit('log', logData): every registered sendLog is called with it.
Emit(data) ==
    received' = [s \in Subs |->
        IF listening[s] /\ sendLogWrites(subSid[s], data)
        THEN Append(received[s], data) ELSE received[s]]

\* global.emitLog(message, type): the binding current at the call decides
\* the session of the event.
GlobalEmit(message, type) == Emit(Event(message, type, globalEmitLog))

\* ------------------------------------------------------ document generator
\* The image a generator resolves with for its type.
Document(type) == <<"image of", type>>

\* A promise: pending, fulfilled with a value, or rejected; at is its place
\* in the order of settling (0: already settled when created).
Pending == [state |-> "pending", value |-> Null, at |-> 0]

Fulfilled(value, at) == [state |-> "fulfilled", value |-> value, at |-> at]

Rejected(at) == [state |-> "rejected", value |-> Null, at |-> at]

\* docTypes.map(type => { switch (type) ... }): the generator's promise for
\* a known type, Promise.resolve(null) by default.
promisesOf(types) ==
    [i \in 1..Len(types) |->
        IF types[i] \in KnownDocTypes THEN Pending ELSE Fulfilled(Null, 0)]

\* Promise.all delivering the values in the order the promises settled.
PromiseAllValues_BySettleOrder(promises) ==
    LET n == Len(promises)
        before(j, i) == \/ promises[j].at < promises[i].at
                        \/ promises[j].at = promises[i].at /\ j < i
        rank(i) == Cardinality({j \in 1..n : before(j, i)}) + 1
    IN  [r \in 1..n |-> promises[CHOOSE i \in 1..n : rank(i) = r].value]

\* The value Promise.all(promises) fulfils with: the values by position.
PromiseAllValues(promises) ==
    [i \in 1..Len(promises) |-> promises[i].value]

Settled(promises) == {i \in 1..Len(promises) : promises[i].state # "pending"}

\* ------------------------------------------------------------ pool actions
\* A load that leaves the failed set as it is.
Load_KeepsFailed(P) ==
    /\ proxies' = P
    /\ currentIndex' = 0
    /\ failedProxies' = failedProxies
    /\ proxyStats' = proxyStats
    /\ rotation' = <<>>
    /\ clean' = TRUE

\* The reset both loaders start with, and the descriptors they leave; the
\* loaders do not assign this.proxyStats.
Load(P) ==
    /\ proxies' = P
    /\ currentIndex' = 0
    /\ failedProxies' = {}
    /\ proxyStats' = proxyStats
    /\ rotation' = <<>>
    /\ clean' = TRUE

\* POST /api/proxies
LoadProxies(text) ==
    /\ IF text = <<>>
       THEN UNCHANGED <<proxies, currentIndex, failedProxies, proxyStats, rotation, clean>>
       ELSE Load(LoadedFrom[text])
    /\ UNCHANGED <<holding, probeVars, routerVars, reqVars, lastPick, auxVars>>

\* DELETE /api/proxies
ClearProxies ==
    /\ Load(loadFromArrayProxies(<<>>))
    /\ UNCHANGED <<holding, probeVars, routerVars, reqVars, lastPick, auxVars>>

\* A workflow calls proxyManager.getNext() and keeps the result.
GetNext ==
    LET o == getNextOutcome(proxies, currentIndex, failedProxies)
    IN  /\ currentIndex < MaxCursor
        /\ holding' = o.ret
        /\ currentIndex' = o.currentIndex
        /\ failedProxies' = o.failedProxies
        /\ IF o.warned
           THEN GlobalEmit(<<"all proxies failed", 0, 0>>, "warn")
           ELSE UNCHANGED received
        /\ lastPick' = IF o.ret = NoProxy THEN "nextEmpty"
                     ELSE IF o.warned THEN "nextAmnesty" ELSE "next"
        /\ rotation' = IF clean /\ o.ret # NoProxy THEN Append(rotation, o.ret)
                       ELSE rotation
        /\ UNCHANGED <<proxies, proxyStats, probeVars, globalEmitLog, listening, closed,
                       subSid, reqVars, clean, auxVars>>

\* A workflow calls proxyManager.getRandom() and keeps the result.
GetRandom ==
    \E rnd \in RandomChoices(proxies, failedProxies) :
        LET o == getRandomOutcome(proxies, failedProxies, rnd)
        IN  /\ holding' = o.ret
            /\ failedProxies' = o.failedProxies
            /\ lastPick' = IF o.ret = NoProxy THEN "randomEmpty"
                         ELSE IF o.amnesty THEN "randomAmnesty" ELSE "random"
            /\ UNCHANGED <<proxies, currentIndex, proxyStats, probeVars, routerVars,
                           reqVars, rotation, clean, auxVars>>

\* A workflow reports the descriptor it holds as failed.
MarkFailed ==
    LET o == markFailedState(proxies, currentIndex, failedProxies, proxyStats, holding)
    IN  /\ TotalMarks < MaxMarks
        /\ proxies' = o.proxies
        /\ currentIndex' = o.currentIndex
        /\ failedProxies' = o.failedProxies
        /\ proxyStats' = o.proxyStats
        /\ markCalls' = CallsAfter(markCalls, holding, "fail")
        /\ clean' = (clean /\ holding = NoProxy)
        /\ rotation' = IF clean' THEN rotation ELSE <<>>
        /\ UNCHANGED <<holding, probeVars, routerVars, reqVars, lastPick, loadArg,
                       parseVars, agentVars, docVars,
                   browserVars>>

\* A workflow reports the descriptor it holds as working.
MarkSuccess ==
    LET o == markSuccessState(proxies, currentIndex, failedProxies, proxyStats, holding)
    IN  /\ TotalMarks < MaxMarks
        /\ proxies' = o.proxies
        /\ currentIndex' = o.currentIndex
        /\ failedProxies' = o.failedProxies
        /\ proxyStats' = o.proxyStats
        /\ markCalls' = CallsAfter(markCalls, holding, "success")
        /\ UNCHANGED <<holding, probeVars, routerVars, reqVars, traceVars, loadArg,
                       parseVars, agentVars, docVars,
                   browserVars>>

\* GET /api/proxies/test, up to the await in testProxy.  When the agent
\* constructor throws, createAgent logs a warning and the probe runs without
\* an agent; when getAxiosConfig itself throws, testProxy rejects and the
\* handler ends there.
TestStart ==
    /\ probePc = "idle"
    /\ IF count = 0
       THEN UNCHANGED <<failedProxies, probeVars, lastPick, received>>
       ELSE \E rnd \in RandomChoices(proxies, failedProxies),
               constructorThrows \in BOOLEAN :
               LET o == getRandomOutcome(proxies, failedProxies, rnd)
                   c == getAxiosConfig(o.ret, constructorThrows)
               IN  /\ failedProxies' = o.failedProxies
                   /\ lastPick' = IF o.amnesty THEN "randomAmnesty" ELSE "random"
                   /\ probeProxy' = IF c.threw THEN NoProxy ELSE o.ret
                   /\ probePc' = IF c.threw THEN "idle" ELSE "probing"
                   /\ IF c.emitted = <<>> THEN UNCHANGED received
                      ELSE GlobalEmit(c.emitted[1].message, c.emitted[1].type)
    /\ UNCHANGED <<proxies, currentIndex, proxyStats, holding, globalEmitLog, listening,
                   closed, subSid, reqVars, rotation, clean, auxVars>>

\* GET /api/proxies/test, after axios.get settled (requestOk: fulfilled) and
\* testProxy resolved.
TestFinish(requestOk) ==
    /\ probePc = "probing"
    /\ LET o == IF testProxyResult(probeProxy, requestOk).working
                THEN markSuccessState(proxies, currentIndex, failedProxies, proxyStats,
                                      probeProxy)
                ELSE markFailedState(proxies, currentIndex, failedProxies, proxyStats,
                                     probeProxy)
       IN  /\ TotalMarks < MaxMarks
           /\ proxies' = o.proxies
           /\ currentIndex' = o.currentIndex
           /\ failedProxies' = o.failedProxies
           /\ proxyStats' = o.proxyStats
    /\ markCalls' = CallsAfter(markCalls, probeProxy,
                               IF testProxyResult(probeProxy, requestOk).working
                               THEN "success" ELSE "fail")
    /\ clean' = (clean /\ testProxyResult(probeProxy, requestOk).working)
    /\ rotation' = IF clean' THEN rotation ELSE <<>>
    /\ probePc' = "idle"
    /\ probeProxy' = NoProxy
    /\ UNCHANGED <<holding, routerVars, reqVars, lastPick, loadArg, parseVars, agentVars,
                   docVars,
                   browserVars>>

\* A caller of the manager calls loadFromString(text).
LoadFromString(text) ==
    /\ Load(loadFromStringProxies(text))
    /\ UNCHANGED <<holding, probeVars, routerVars, reqVars, lastPick, auxVars>>

\* A caller of the manager calls loadFromArray(proxyArray).
LoadFromArray(proxyArray) ==
    /\ Load(loadFromArrayProxies(proxyArray))
    /\ UNCHANGED <<holding, probeVars, routerVars, reqVars, lastPick, auxVars>>

NextPool ==
    \/ \E text \in Texts : LoadProxies(text)
    \/ ClearProxies
    \/ GetNext
    \/ GetRandom
    \/ MarkFailed
    \/ MarkSuccess
    \/ TestStart
    \/ \E requestOk \in BOOLEAN : TestFinish(requestOk)

SpecPool == Init /\ [][NextPool]_vars

\* A caller calls testProxy(agentArg): the call up to its await of axios.get,
\* or to the exception of getAxiosConfig, which rejects the call.
TestProxyConfig(constructorThrows) ==
    /\ agentRet = NotCalled
    /\ LET c == getAxiosConfig(agentArg, constructorThrows)
       IN  /\ agentRet' = [called |-> TRUE, threw |-> c.threw, config |-> c.config,
                           emitted |-> c.emitted, settled |-> FALSE, result |-> NoResult]
           /\ IF c.emitted = <<>> THEN UNCHANGED received
              ELSE GlobalEmit(c.emitted[1].message, c.emitted[1].type)
    /\ UNCHANGED <<poolVars, holding, probeVars, globalEmitLog, listening, closed, subSid,
                   reqVars, traceVars, markCalls, loadArg, parseVars, agentArg, docVars,
                   browserVars>>

\* axios.get settled and testProxy resolves.
TestProxySettle(requestOk) ==
    /\ agentRet # NotCalled
    /\ ~agentRet.threw
    /\ ~agentRet.settled
    /\ agentRet' = [agentRet EXCEPT !.settled = TRUE,
                                    !.result = testProxyResult(agentArg, requestOk)]
    /\ UNCHANGED <<poolVars, holding, probeVars, routerVars, reqVars, traceVars, markCalls,
                   loadArg, parseVars, agentArg, docVars,
                   browserVars>>

NextAgent ==
    \/ \E constructorThrows \in BOOLEAN : TestProxyConfig(constructorThrows)
    \/ \E requestOk \in BOOLEAN : TestProxySettle(requestOk)

SpecAgent == InitAgent /\ [][NextAgent]_vars

\* generateDocumentsParallel(info, docTypes) up to its await: the first log
\* line and the promises of the map.
DocsStart ==
    /\ docPc = "idle"
    /\ docPromises' = promisesOf(docTypes)
    /\ docPc' = "awaiting"
    /\ GlobalEmit(<<"generating documents in parallel", Len(docTypes), 0>>, "info")
    /\ UNCHANGED <<poolVars, holding, probeVars, globalEmitLog, listening, closed, subSid,
                   reqVars, traceVars, markCalls, loadArg, parseVars, agentVars, docTypes,
                   docResults,
                   browserVars>>

\* The generator of the i-th entry resolves with its image or rejects.
DocSettle(i, ok) ==
    /\ docPc = "awaiting"
    /\ i \in 1..Len(docPromises)
    /\ docPromises[i].state = "pending"
    /\ LET at == Cardinality({j \in Settled(docPromises) : docPromises[j].at > 0}) + 1
       IN  docPromises' = [docPromises EXCEPT
                              ![i] = IF ok THEN Fulfilled(Document(docTypes[i]), at)
                                     ELSE Rejected(at)]
    /\ UNCHANGED <<poolVars, holding, probeVars, routerVars, reqVars, traceVars, markCalls,
                   loadArg, parseVars, agentVars, docTypes, docPc, docResults,
                   browserVars>>

\* Promise.all fulfilled: the second log line and `return results`.
DocsReturn ==
    /\ docPc = "awaiting"
    /\ \A i \in 1..Len(docPromises) : docPromises[i].state = "fulfilled"
    /\ docResults' = PromiseAllValues(docPromises)
    /\ docPc' = "returned"
    /\ GlobalEmit(<<"all documents generated", 0, 0>>, "info")
    /\ UNCHANGED <<poolVars, holding, probeVars, globalEmitLog, listening, closed, subSid,
                   reqVars, traceVars, markCalls, loadArg, parseVars, agentVars, docTypes,
                   docPromises,
                   browserVars>>

\* Promise.all rejected: the await throws and the call rejects.
DocsThrow ==
    /\ docPc = "awaiting"
    /\ \E i \in 1..Len(docPromises) : docPromises[i].state = "rejected"
    /\ docPc' = "threw"
    /\ UNCHANGED <<poolVars, holding, probeVars, routerVars, reqVars, traceVars, markCalls,
                   loadArg, parseVars, agentVars, docTypes, docPromises, docResults,
                   browserVars>>

NextDocs ==
    \/ DocsStart
    \/ \E i \in 1..MaxDocs, ok \in BOOLEAN : DocSettle(i, ok)
    \/ DocsReturn
    \/ DocsThrow

SpecDocs == InitDocs /\ [][NextDocs]_vars

\* Caller c calls getBrowser(): the call up to its return of the connected
\* shared browser, or up to its await of puppeteer.launch.
GetBrowserCall(c) ==
    /\ getPc[c] = "idle"
    /\ IF sharedBrowser # NoBrowser /\ sharedBrowser \in connectedBrowsers
       THEN /\ getRet' = [getRet EXCEPT ![c] = sharedBrowser]
            /\ getPc' = [getPc EXCEPT ![c] = "returned"]
            /\ UNCHANGED <<sharedBrowser, received>>
       ELSE /\ sharedBrowser' = NoBrowser
            /\ GlobalEmit(<<"launching chrome browser", 0, 0>>, "info")
            /\ getPc' = [getPc EXCEPT ![c] = "launching"]
            /\ UNCHANGED getRet
    /\ UNCHANGED <<poolVars, holding, probeVars, globalEmitLog, listening, closed, subSid,
                   reqVars, traceVars, markCalls, loadArg, parseVars, agentVars, docVars,
                   launches, connectedBrowsers, closing>>

\* puppeteer.launch resolved for caller c with a new browser: the assignment
\* to sharedBrowser, the 'disconnected' listener, and the return.
GetBrowserLaunched(c) ==
    /\ getPc[c] = "launching"
    /\ launches < MaxLaunches
    /\ launches' = launches + 1
    /\ connectedBrowsers' = connectedBrowsers \cup {launches + 1}
    /\ sharedBrowser' = launches + 1
    /\ getRet' = [getRet EXCEPT ![c] = launches + 1]
    /\ getPc' = [getPc EXCEPT ![c] = "returned"]
    /\ UNCHANGED <<poolVars, holding, probeVars, routerVars, reqVars, traceVars, markCalls,
                   loadArg, parseVars, agentVars, docVars, closing>>

\* puppeteer.launch rejected: the call of caller c rejects.
GetBrowserLaunchFails(c) ==
    /\ getPc[c] = "launching"
    /\ getPc' = [getPc EXCEPT ![c] = "threw"]
    /\ UNCHANGED <<poolVars, holding, probeVars, routerVars, reqVars, traceVars, markCalls,
                   loadArg, parseVars, agentVars, docVars, sharedBrowser, launches,
                   connectedBrowsers, getRet, closing>>

\* Caller c is done with the browser it got and may call getBrowser again.
GetBrowserAgain(c) ==
    /\ getPc[c] \in {"returned", "threw"}
    /\ getPc' = [getPc EXCEPT ![c] = "idle"]
    /\ getRet' = [getRet EXCEPT ![c] = NoBrowser]
    /\ UNCHANGED <<poolVars, holding, probeVars, routerVars, reqVars, traceVars, markCalls,
                   loadArg, parseVars, agentVars, docVars, sharedBrowser, launches,
                   connectedBrowsers, closing>>

\* Browser b loses its connection: its 'disconnected' listener runs.
Disconnected(b) ==
    /\ b \in connectedBrowsers
    /\ connectedBrowsers' = connectedBrowsers \ {b}
    /\ GlobalEmit(<<"browser disconnected", 0, 0>>, "info")
    /\ sharedBrowser' = NoBrowser
    /\ UNCHANGED <<poolVars, holding, probeVars, globalEmitLog, listening, closed, subSid,
                   reqVars, traceVars, markCalls, loadArg, parseVars, agentVars, docVars,
                   launches, getPc, getRet, closing>>

\* closeBrowser() up to its await of sharedBrowser.close().
CloseBrowserCall ==
    /\ closing = NoBrowser
    /\ sharedBrowser # NoBrowser
    /\ closing' = sharedBrowser
    /\ UNCHANGED <<poolVars, holding, probeVars, routerVars, reqVars, traceVars, markCalls,
                   loadArg, parseVars, agentVars, docVars, sharedBrowser, launches,
                   connectedBrowsers, getPc, getRet>>

\* close() resolved: the browser is gone (its listener ran if it was still
\* connected), then closeBrowser assigns null to sharedBrowser.
CloseBrowserDone ==
    /\ closing # NoBrowser
    /\ connectedBrowsers' = connectedBrowsers \ {closing}
    /\ IF closing \in connectedBrowsers
       THEN GlobalEmit(<<"browser disconnected", 0, 0>>, "info")
       ELSE UNCHANGED received
    /\ sharedBrowser' = NoBrowser
    /\ closing' = NoBrowser
    /\ UNCHANGED <<poolVars, holding, probeVars, globalEmitLog, listening, closed, subSid,
                   reqVars, traceVars, markCalls, loadArg, parseVars, agentVars, docVars,
                   launches, getPc, getRet>>

NextBrowser ==
    \/ \E c \in BrowserCallers : GetBrowserCall(c)
    \/ \E c \in BrowserCallers : GetBrowserLaunched(c)
    \/ \E c \in BrowserCallers : GetBrowserLaunchFails(c)
    \/ \E c \in BrowserCallers : GetBrowserAgain(c)
    \/ \E b \in 1..MaxLaunches : Disconnected(b)
    \/ CloseBrowserCall
    \/ CloseBrowserDone

SpecBrowser == Init /\ [][NextBrowser]_vars

\* A caller calls parseProxy(parseArg).
Parse ==
    /\ parseRet = NotParsed
    /\ parseRet' = parseProxy(parseArg)
    /\ UNCHANGED <<poolVars, holding, probeVars, routerVars, reqVars, traceVars, markCalls,
                   loadArg, parseArg, agentVars, docVars,
                   browserVars>>

NextParse == Parse

SpecParse == InitParse /\ [][NextParse]_vars

\* The loaders called with the caller's lines, as one text or as a list,
\* between calls of getNext and markFailed.
NextLoad ==
    \/ LoadFromString(Join(loadArg, "\n"))
    \/ LoadFromArray(loadArg)
    \/ GetNext
    \/ MarkFailed

SpecLoad == InitLoad /\ [][NextLoad]_vars

NextKeys ==
    \/ LoadFromArray(loadArg)
    \/ GetNext
    \/ GetRandom
    \/ MarkFailed

SpecKeys == InitKeys /\ [][NextKeys]_vars

\* ------------------------------------------------------------ subscribers
\* GET /api/logs?sessionId=...: registers sendLog on a fresh response stream.
Subscribe(s, sessionId) ==
    /\ ~listening[s]
    /\ ~closed[s]
    /\ listening' = [listening EXCEPT ![s] = TRUE]
    /\ subSid' = [subSid EXCEPT ![s] = sessionId]
    /\ received' = [received EXCEPT ![s] = <<>>]
    /\ UNCHANGED <<poolVars, holding, probeVars, globalEmitLog, closed, reqVars,
                   traceVars, auxVars>>

\* req.on('close'): logEmitter.off('log', sendLog)
Close(s) ==
    /\ listening[s]
    /\ listening' = [listening EXCEPT ![s] = FALSE]
    /\ closed' = [closed EXCEPT ![s] = TRUE]
    /\ received' = [received EXCEPT ![s] = <<>>]
    /\ UNCHANGED <<poolVars, holding, probeVars, globalEmitLog, subSid, reqVars, traceVars,
                   auxVars>>

\* ------------------------------------------------------------ POST /api/verify
\* A response body that leaves the session identifier out.
Response_WithoutSession(status, success, error, sessionId) ==
    [sent |-> TRUE, status |-> status, success |-> success, error |-> error,
     sessionId |-> NullSid]

\* The body of a response of /api/verify.
Response(status, success, error, sessionId) ==
    [sent |-> TRUE, status |-> status, success |-> success, error |-> error,
     sessionId |-> sessionId]

\* proxy && typeof proxy === 'string' && proxy.trim()
ProxySupplied(proxy) == proxy # Null /\ proxy # <<>> /\ Trim(proxy) # <<>>

\* const sid = sessionId || `session_...`
SidFor(r, sessionId) == IF Truthy(sessionId) THEN sessionId ELSE GeneratedSid(r)

\* The handler up to its await of verifySheerID (or to its 400 response).
VerifyStart(r, url, sessionId, proxy) ==
    /\ pc[r] = "idle"
    /\ IF ProxySupplied(proxy)
       THEN Load(loadFromStringProxies(proxy))
       ELSE UNCHANGED <<proxies, currentIndex, failedProxies, proxyStats, rotation, clean>>
    /\ IF ~url
       THEN /\ response' = [response EXCEPT ![r] =
                   Response(400, FALSE, "URL is required", NullSid)]
            /\ pc' = [pc EXCEPT ![r] = "done"]
            /\ UNCHANGED <<globalEmitLog, received, sid, previousEmitLog, logged>>
       ELSE LET newSid == SidFor(r, sessionId)
                data == Event(<<"received", r, 0>>, "info", newSid)
            IN  /\ sid' = [sid EXCEPT ![r] = newSid]
                /\ previousEmitLog' = [previousEmitLog EXCEPT ![r] = globalEmitLog]
                /\ globalEmitLog' = newSid
                /\ Emit(data)
                /\ logged' = [logged EXCEPT ![r] = Append(@, data)]
                /\ pc' = [pc EXCEPT ![r] = "running"]
                /\ UNCHANGED response
    /\ UNCHANGED <<holding, probeVars, listening, closed, subSid, wfStep, lastPick,
                   auxVars>>

\* The workflow of request r logs a progress line through global.emitLog.
WorkflowLog(r) ==
    /\ pc[r] = "running"
    /\ wfStep[r] < WfLogs
    /\ LET data == Event(<<"progress", r, wfStep[r] + 1>>, "info", globalEmitLog)
       IN  /\ Emit(data)
           /\ logged' = [logged EXCEPT ![r] = Append(@, data)]
    /\ wfStep' = [wfStep EXCEPT ![r] = @ + 1]
    /\ UNCHANGED <<poolVars, holding, probeVars, globalEmitLog, listening, closed,
                   subSid, pc, sid, previousEmitLog, response, traceVars, auxVars>>

\* verifySheerID resolved: the try block's res.json (the workflow's result,
\* taken to be a successful one, with sessionId added), then the finally block.
VerifyResolve(r) ==
    /\ pc[r] = "running"
    /\ wfStep[r] = WfLogs
    /\ response' = [response EXCEPT ![r] = Response(200, TRUE, "", sid[r])]
    /\ globalEmitLog' = previousEmitLog[r]
    /\ pc' = [pc EXCEPT ![r] = "done"]
    /\ UNCHANGED <<poolVars, holding, probeVars, listening, closed, subSid, received,
                   sid, previousEmitLog, wfStep, logged, traceVars, auxVars>>

\* verifySheerID rejected: the catch block, then the finally block.
VerifyReject(r) ==
    /\ pc[r] = "running"
    /\ LET data == Event(<<"error", r, 0>>, "error", sid[r])
       IN  /\ Emit(data)
           /\ logged' = [logged EXCEPT ![r] = Append(@, data)]
    /\ response' = [response EXCEPT ![r] = Response(200, FALSE, "workflow error", sid[r])]
    /\ globalEmitLog' = previousEmitLog[r]
    /\ pc' = [pc EXCEPT ![r] = "done"]
    /\ UNCHANGED <<poolVars, holding, probeVars, listening, closed, subSid, sid,
                   previousEmitLog, wfStep, traceVars, auxVars>>

NextRouter ==
    \/ \E s \in Subs, sessionId \in SessionIds \cup {Undefined} : Subscribe(s, sessionId)
    \/ \E s \in Subs : Close(s)
    \/ \E r \in Reqs, url \in BOOLEAN, sessionId \in SessionIds \cup {Undefined},
          proxy \in ProxyFields : VerifyStart(r, url, sessionId, proxy)
    \/ \E r \in Reqs : WorkflowLog(r)
    \/ \E r \in Reqs : VerifyResolve(r)
    \/ \E r \in Reqs : VerifyReject(r)

SpecRouter == Init /\ [][NextRouter]_vars

\* ================================================================ claims
\* The event a step of request r published, if it published one.
PublishedBy(r) == logged'[r][Len(logged'[r])]

Publishes(r) == Len(logged'[r]) = Len(logged[r]) + 1

\* The messages of a sequence of events, in order.
Messages(events) == [i \in 1..Len(events) |-> events[i].message]

\* C1: every event a request and its workflow log while the request runs for
\* session S is published with sessionId = S, in every interleaving of the
\* requests.
C1_EventsCarryOwnSession ==
    \A r \in Reqs : \A i \in 1..Len(logged[r]) : logged[r][i].sessionId = sid[r]

\* C2: a listening subscriber of session S is sent a published event exactly
\* when the event's sessionId is S; what it holds never carries another
\* sessionId, and never null.
C2_Delivery ==
    \A r \in Reqs, s \in Subs :
        (Publishes(r) /\ listening[s]) =>
            IF PublishedBy(r).sessionId = subSid[s]
            THEN received'[s] = Append(received[s], PublishedBy(r))
            ELSE received'[s] = received[s]

C2_ReceivedOwnOnly ==
    \A s \in Subs : \A i \in 1..Len(received[s]) :
        /\ received[s][i].sessionId = subSid[s]
        /\ received[s][i].sessionId # NullSid

\* C2: in every step a listening subscriber is sent the published event if
\* and only if its sessionId equals the subscriber's, and no subscriber ever
\* holds an event of another session or of none.
C2_SessionFilter == [][C2_Delivery]_vars /\ []C2_ReceivedOwnOnly

\* C2 witness: a listening subscriber holds an event of its session while a
\* request has published an event of another session, and one with null.
C2_Witness ==
    \E s \in Subs, r1 \in Reqs, r2 \in Reqs :
        /\ listening[s] /\ Len(received[s]) >= 1
        /\ \E i \in 1..Len(logged[r1]) :
              logged[r1][i].sessionId \notin {subSid[s], NullSid}
        /\ \E i \in 1..Len(logged[r2]) : logged[r2][i].sessionId = NullSid

\* C3: with two distinct sessions, a subscriber of the session of request r
\* that was connected when r started and still is when r is done holds
\* exactly the events r and its workflow logged, in publish order.
C3_SubscriberSeesOwnWorkflow ==
    \A r \in Reqs, s \in Subs :
        ( /\ pc[r] = "done" /\ response[r].status = 200
          /\ \A r2 \in Reqs \ {r} : sid[r2] # sid[r]
          /\ listening[s] /\ subSid[s] = sid[r]
          /\ Len(received[s]) >= 1
          /\ received[s][1].message = <<"received", r, 0>> )
        => Messages(received[s]) = Messages(logged[r])

\* ------------------------------------------------------------ pool claims
\* No line is loaded twice.
NoDuplicates(P) == \A i, j \in 1..Len(P) : P[i].raw = P[j].raw => i = j

\* The positions of the loaded descriptors whose key is in the failed set.
FailedPositions == {i \in 1..count : proxies[i].raw \in failedProxies}

\* C4 as stated: availableCount is totalCount minus the number of keys that
\* are both failed and keys of loaded descriptors.
C4_AvailableByFailedKeys ==
    availableCount = count - Cardinality(failedProxies \cap Keys(proxies))

\* C4 as amended: availableCount is totalCount minus the number of loaded
\* descriptors (duplicates counted each) whose key is in the failed set.
C4_AvailableByFailedDescriptors ==
    availableCount = count - Cardinality(FailedPositions)

\* C4 witness: a line loaded twice is failed, so both descriptors are out.
C4_Witness ==
    /\ count = 2 /\ proxies[1].raw = proxies[2].raw
    /\ proxies[1].raw \in failedProxies

\* C5 as stated: on a non-empty pool availableCount plus the size of the
\* failed set is totalCount.
C5_AvailablePlusFailedSet ==
    count > 0 => availableCount + Cardinality(failedProxies) = count

\* C5 as amended: on a non-empty pool without duplicate lines, availableCount
\* plus the number of failed keys that belong to loaded descriptors is
\* totalCount (failed keys of descriptors no longer loaded do not count).
C5_AvailablePlusLoadedFailedKeys ==
    (count > 0 /\ NoDuplicates(proxies)) =>
        availableCount + Cardinality(failedProxies \cap Keys(proxies)) = count

\* C5 witness: a pool without duplicates where a loaded key is failed and a
\* key reported after a reload dropped it is in the failed set too.
C5_Witness ==
    /\ count > 0 /\ NoDuplicates(proxies)
    /\ failedProxies \cap Keys(proxies) # {}
    /\ failedProxies \ Keys(proxies) # {}

\* C6: the i-th getNext after a load of n >= 1 descriptors returns the i-th
\* loaded descriptor, for i <= n, while no markFailed has run since the load.
C6_FirstRoundInLoadOrder ==
    (clean /\ count >= 1) =>
        /\ Len(rotation) = currentIndex
        /\ \A i \in 1..Len(rotation) : i <= count => rotation[i] = proxies[i]

\* C6 witness: two different lines loaded and both returned by getNext.
C6_Witness ==
    /\ clean /\ count = 2 /\ proxies[1] # proxies[2]
    /\ Len(rotation) >= 2

\* C7: getNext on a non-empty pool whose descriptors are all failed empties
\* the failed set and returns the first loaded descriptor whatever the
\* cursor; getNext in the state it leaves chooses by the cursor over the
\* whole pool and leaves the failed set empty.
C7_AmnestyStep ==
    (GetNext /\ count > 0 /\ availableCount = 0) =>
        /\ failedProxies' = {}
        /\ holding' = proxies[1]
        /\ LET following == getNextOutcome(proxies', currentIndex', failedProxies')
           IN  /\ following.ret = proxies'[(currentIndex' % count') + 1]
               /\ following.failedProxies = {}
               /\ ~following.warned

\* C7: every getNext step that finds all descriptors failed empties the
\* failed set, returns the first descriptor, and leaves a state in which
\* getNext rotates normally over the whole pool.
C7_Amnesty == [][C7_AmnestyStep]_vars

\* C7 witness: the amnesty ran with the cursor at 1 on a pool of two lines.
C7_Witness ==
    /\ lastPick = "nextAmnesty" /\ count = 2 /\ proxies[1] # proxies[2]
    /\ currentIndex = 1 /\ holding = proxies[1] /\ failedProxies = {}

\* A step of one of the loaders.
LoadStep == (\E text \in Texts : LoadProxies(text)) \/ ClearProxies

\* C8 as stated: every getNext on a non-empty pool advances the cursor by
\* one, the call that performs the amnesty included.
C8_EveryNextAdvances ==
    [][(GetNext /\ count > 0) => currentIndex' = currentIndex + 1]_vars

\* C8 as amended: getNext on a non-empty pool advances the cursor by one
\* when some descriptor is not failed and leaves it unchanged when it
\* performs the amnesty; the cursor decreases only in a load.
C8_NextStep ==
    /\ (GetNext /\ count > 0) =>
          currentIndex' = IF availableCount > 0 THEN currentIndex + 1 ELSE currentIndex
    /\ currentIndex' < currentIndex => LoadStep

\* C8 as amended: every getNext step advances the cursor by one, except the
\* amnesty step, which leaves it; only a load lowers the cursor.
C8_CursorAdvance == [][C8_NextStep]_vars

\* C8 witness: the amnesty ran with the cursor at 2 and left it there.
C8_Witness ==
    /\ lastPick = "nextAmnesty" /\ count = 1 /\ currentIndex = 2
    /\ holding = proxies[1]

\* The loaded descriptors.
Loaded == {proxies[i] : i \in 1..count}

\* C9: getRandom on a non-empty pool returns a loaded non-failed descriptor
\* when there is one and then changes nothing of the pool; when all are
\* failed it empties the failed set and returns a loaded descriptor; it
\* never changes the cursor or the descriptors.
C9_RandomStep ==
    (GetRandom /\ count > 0) =>
        /\ holding' \in Loaded
        /\ IF availableCount > 0
           THEN holding'.raw \notin failedProxies /\ UNCHANGED poolVars
           ELSE failedProxies' = {}
        /\ UNCHANGED <<proxies, currentIndex, proxyStats>>

\* C9: every getRandom step on a non-empty pool returns a loaded descriptor,
\* a non-failed one when there is one, and changes at most the failed set,
\* which it empties only when all were failed.
C9_Random == [][C9_RandomStep]_vars

\* C9 witness: both lines were marked failed after the load, and getRandom
\* then returned the second descriptor.
C9_Witness ==
    /\ lastPick = "randomAmnesty" /\ count = 2 /\ proxies[1] # proxies[2]
    /\ holding = proxies[2] /\ failedProxies = {} /\ ~clean
    /\ StatsOf(proxyStats, proxies[1].raw).fail = 1
    /\ StatsOf(proxyStats, proxies[2].raw).fail = 1

\* C10: markFailed(d) leaves d's key failed and adds one to its fail
\* counter, markSuccess(d) leaves it not failed and adds one to its success
\* counter; a second call of either changes neither the failed set nor
\* availableCount.
C10_MarkStep ==
    /\ (MarkFailed /\ holding # NoProxy) =>
          /\ holding.raw \in failedProxies'
          /\ StatsOf(proxyStats', holding.raw).fail
                = StatsOf(proxyStats, holding.raw).fail + 1
          /\ StatsOf(proxyStats', holding.raw).success
                = StatsOf(proxyStats, holding.raw).success
          /\ LET again == markFailedOutcome(failedProxies', proxyStats', holding)
             IN  /\ again.failedProxies = failedProxies'
                 /\ availableCountOf(proxies', again.failedProxies) = availableCount'
    /\ (MarkSuccess /\ holding # NoProxy) =>
          /\ holding.raw \notin failedProxies'
          /\ StatsOf(proxyStats', holding.raw).success
                = StatsOf(proxyStats, holding.raw).success + 1
          /\ StatsOf(proxyStats', holding.raw).fail
                = StatsOf(proxyStats, holding.raw).fail
          /\ LET again == markSuccessOutcome(failedProxies', proxyStats', holding)
             IN  /\ again.failedProxies = failedProxies'
                 /\ availableCountOf(proxies', again.failedProxies) = availableCount'

\* C10: every markFailed / markSuccess step sets the membership of the key,
\* adds one to its counter, and is idempotent on the failed set and on
\* availableCount.
C10_Marks == [][C10_MarkStep]_vars

\* C10 witness: markFailed ran twice for the descriptor the workflow holds.
C10_Witness ==
    /\ holding # NoProxy /\ holding.raw \in failedProxies
    /\ StatsOf(proxyStats, holding.raw).fail = 2

\* The descriptors getRandom may return next, and those getNext rotates over,
\* for a pool P with failed set F.
RandomResults(P, F) ==
    {getRandomOutcome(P, F, rnd).ret : rnd \in RandomChoices(P, F)}

RotationResults(P, F) ==
    {getNextOutcome(P, idx, F).ret : idx \in 0..(Len(P) - 1)}

\* Some loaded descriptor is not failed while d's key is.
Sidelined(d) ==
    /\ d \in Loaded
    /\ d.raw \in failedProxies
    /\ \E e \in Loaded : e.raw \notin failedProxies

\* C11: markSuccess for a loaded descriptor whose key was failed makes it a
\* possible result of the next getRandom and one of the descriptors getNext
\* rotates over, without a reload; and getNext and getRandom never return a
\* descriptor whose key is failed while another loaded one is not failed.
C11_Step ==
    /\ (MarkSuccess /\ holding \in Loaded /\ holding.raw \in failedProxies) =>
          /\ UNCHANGED proxies
          /\ holding \in RandomResults(proxies', failedProxies')
          /\ holding \in RotationResults(proxies', failedProxies')
    /\ (TestFinish(TRUE) /\ probeProxy \in Loaded /\ probeProxy.raw \in failedProxies) =>
          /\ UNCHANGED proxies
          /\ probeProxy \in RandomResults(proxies', failedProxies')
          /\ probeProxy \in RotationResults(proxies', failedProxies')
    /\ (GetNext \/ GetRandom) => \A d \in Loaded : Sidelined(d) => holding' # d
    /\ TestStart => \A d \in Loaded : Sidelined(d) => probeProxy' # d

\* C11: every markSuccess step re-admits the descriptor to getRandom and to
\* getNext's rotation, and no selection step returns a failed descriptor
\* while a non-failed one is loaded.
C11_Readmission == [][C11_Step]_vars

\* C11 witness: of two different loaded descriptors the one a workflow holds
\* was marked failed after the load and then marked working, and is not
\* failed any more.
C11_Witness ==
    /\ count = 2 /\ proxies[1].raw # proxies[2].raw /\ holding \in Loaded /\ ~clean
    /\ StatsOf(proxyStats, holding.raw) = [success |-> 1, fail |-> 1]
    /\ failedProxies = {}
    /\ holding \in RandomResults(proxies, failedProxies)

\* C12: whatever the interleaving of workflows and probes, no report is
\* lost: for every key the fail counter of the stats is the number of
\* markFailed calls made for it and the success counter the number of
\* markSuccess calls (the stats are never reset once the manager exists).
C12_NoLostUpdate ==
    /\ DOMAIN proxyStats = DOMAIN markCalls
    /\ \A k \in DOMAIN markCalls :
          /\ proxyStats[k].fail = markCalls[k].fail
          /\ proxyStats[k].success = markCalls[k].success

\* C12 witness: a probe is awaiting the test of the descriptor a workflow
\* also holds, and that key has been reported failed once and working once.
C12_Witness ==
    /\ probePc = "probing" /\ holding # NoProxy /\ probeProxy = holding
    /\ holding.raw \in DOMAIN markCalls
    /\ markCalls[holding.raw] = [success |-> 1, fail |-> 1]

\* A line the text loader treats as a comment or as empty.
CommentOrEmpty(l) == Trim(l) = <<>> \/ Head(Trim(l)) = "#"

\* The positions of the lines of ls a load from text keeps: neither empty
\* nor a comment once trimmed, and accepted by the parser.
KeptFromText(ls) ==
    {i \in 1..Len(ls) : ~CommentOrEmpty(ls[i]) /\ parseProxy(Trim(ls[i])) # NoParse}

\* The positions of the entries of ls a load from a list keeps: those the
\* parser accepts.
KeptFromList(ls) == {i \in 1..Len(ls) : parseProxy(ls[i]) # NoParse}

\* P holds one descriptor for each kept position, in the order of the
\* positions; Descr(i) is the descriptor expected for position i.
HoldsInOrder(P, kept, Descr(_)) ==
    /\ Len(P) = Cardinality(kept)
    /\ \A i \in kept : P[Cardinality({j \in kept : j <= i})] = Descr(i)

\* The same, comparing host and port only.
HoldsHostPortInOrder(P, kept, Descr(_)) ==
    /\ Len(P) = Cardinality(kept)
    /\ \A i \in kept :
          LET d == P[Cardinality({j \in kept : j <= i})]
          IN  d.host = Descr(i).host /\ d.port = Descr(i).port

FromTextLine(i) == parseProxy(Trim(loadArg[i]))

FromListEntry(i) == parseProxy(loadArg[i])

\* C13 as stated: after a load from text or from a list the pool holds
\* exactly the parsed, non-comment, non-empty lines of the input in input
\* order, the cursor is 0, the failed set is empty and the returned count is
\* the size of the pool.
C13_LoadKeepsNonCommentLinesStep ==
    /\ LoadFromString(Join(loadArg, "\n")) =>
          /\ HoldsHostPortInOrder(proxies', KeptFromText(loadArg), FromTextLine)
          /\ currentIndex' = 0 /\ failedProxies' = {}
          /\ loadFromStringReturn(Join(loadArg, "\n")) = Len(proxies')
    /\ LoadFromArray(loadArg) =>
          /\ HoldsHostPortInOrder(proxies', KeptFromText(loadArg), FromTextLine)
          /\ currentIndex' = 0 /\ failedProxies' = {}
          /\ loadFromArrayReturn(loadArg) = Len(proxies')

C13_LoadKeepsNonCommentLines == [][C13_LoadKeepsNonCommentLinesStep]_vars

\* C13, amended: a load from text leaves the descriptors of the trimmed
\* lines that are non-empty, no comment and accepted by the parser, in input
\* order; a load from a list leaves the descriptor of every entry the parser
\* accepts, as passed and '#' entries included, in input order; both set the
\* cursor to 0, empty the failed set and return the size of the pool.
C13_LoadStep ==
    /\ LoadFromString(Join(loadArg, "\n")) =>
          /\ HoldsInOrder(proxies', KeptFromText(loadArg), FromTextLine)
          /\ currentIndex' = 0 /\ failedProxies' = {}
          /\ loadFromStringReturn(Join(loadArg, "\n")) = Len(proxies')
    /\ LoadFromArray(loadArg) =>
          /\ HoldsInOrder(proxies', KeptFromList(loadArg), FromListEntry)
          /\ currentIndex' = 0 /\ failedProxies' = {}
          /\ loadFromArrayReturn(loadArg) = Len(proxies')

\* C13: every load step leaves exactly the lines its loader keeps, in input
\* order, with cursor 0, an empty failed set and the pool size returned.
C13_LoadReplaces == [][C13_LoadStep]_vars

\* C13 witness: the three lines "a:80", "x:y", " b:81 " were loaded from
\* text after a descriptor had been handed out and reported failed; the
\* malformed second line is dropped and the other two are loaded.
C13_Witness ==
    /\ loadArg = <<LineA, LineBad, LinePadded>>
    /\ count = 2 /\ proxies[1].raw = LineA /\ proxies[2].raw = Trim(LinePadded)
    /\ currentIndex = 0 /\ failedProxies = {} /\ clean /\ rotation = <<>>
    /\ holding # NoProxy /\ TotalMarks >= 1

\* A step of markFailed or markSuccess, called by a workflow or by the probe.
MarkStep == MarkFailed \/ MarkSuccess \/ (\E working \in BOOLEAN : TestFinish(working))

\* C14: markFailed and markSuccess change neither the descriptor sequence
\* nor the cursor, whichever descriptor they are given: a loaded one, one
\* from before a reload, or none.
C14_Frame == [][MarkStep => UNCHANGED <<proxies, currentIndex>>]_vars

\* C14 witness: a descriptor of the pool before a reload was reported failed
\* after it (its key is failed and not loaded, and markFailed ran since the
\* load), and getNext has moved the cursor; the pool and the cursor stand.
C14_Witness ==
    /\ \E k \in failedProxies : k \notin Keys(proxies)
    /\ ~clean /\ count >= 1 /\ currentIndex = 1

\* The ':'-separated fields of the trimmed line given to the parser.
ArgFields == Split(Trim(parseArg), ":")

\* parseProxy has returned, and returned a descriptor.
Parsed == parseRet # NotParsed /\ parseRet # NoParse

\* A port field that is a number: one or more decimal digits.
IsNumber(f) == f # <<>> /\ \A i \in 1..Len(f) : IsDigit(f[i])

\* C15: the parser returns a descriptor only for a line with a non-empty
\* host and a numeric port, and none for a line with fewer than 2 fields, an
\* empty host or a port field that is missing or not a number; the port of
\* every descriptor it returns is an integer in 1..65535.
C15_ParserValidates ==
    /\ Parsed =>
          /\ Len(ArgFields) >= 2
          /\ ArgFields[1] # <<>>
          /\ IsNumber(ArgFields[2])
          /\ parseRet.port \in 1..65535
    /\ (/\ parseRet # NotParsed
        /\ \/ Len(ArgFields) < 2
           \/ ArgFields[1] = <<>>
           \/ ~IsNumber(ArgFields[2])) => parseRet = NoParse

\* The username and password rule of the parser: field 3, and fields 4..k
\* rejoined with ':'; absent when the line has no such field.
CredentialsByFields ==
    /\ parseRet.username = IF Len(ArgFields) >= 3 THEN ArgFields[3] ELSE Null
    /\ parseRet.password = IF Len(ArgFields) >= 4
                           THEN Join(SubSeq(ArgFields, 4, Len(ArgFields)), ":")
                           ELSE Null

\* C16 as stated, for lines whose port field is a number: the credentials
\* follow the field rule, and for 4 or more fields host:port:username:password
\* of the descriptor reassembles the trimmed line.
C16_DescriptorReassemblesLine ==
    (Parsed /\ IsNumber(ArgFields[2])) =>
        /\ CredentialsByFields
        /\ Len(ArgFields) >= 4 =>
              Join(<<parseRet.host, DecimalString(parseRet.port), parseRet.username,
                     parseRet.password>>, ":") = Trim(parseArg)

\* C16, amended: the credentials follow the field rule, and for 4 or more
\* fields host, the port field as written, username and password, joined
\* with ':', reassemble the trimmed line; the descriptor's port is the
\* integer value of the port field.
C16_FieldsReassembleLine ==
    Parsed =>
        /\ CredentialsByFields
        /\ parseRet.host = ArgFields[1]
        /\ parseRet.port = ParseInt(ArgFields[2]).value
        /\ Len(ArgFields) >= 4 =>
              Join(<<parseRet.host, ArgFields[2], parseRet.username,
                     parseRet.password>>, ":") = Trim(parseArg)

\* C16 witness: a line of five fields with blanks around it was parsed; its
\* password is the two last fields with their ':'.
C16_Witness ==
    /\ Parsed /\ Len(ArgFields) = 5 /\ Trim(parseArg) # parseArg
    /\ parseRet.username = <<"a">>
    /\ parseRet.password = <<"a", ":", "8", "0">>

\* A step of the run-verification handler for a request that fails: the
\* handling of a request without URL, or the catch block after the workflow
\* threw.
FailedRequestStep ==
    \/ \E r \in Reqs, sessionId \in SessionIds \cup {Undefined}, proxy \in ProxyFields :
          VerifyStart(r, FALSE, sessionId, proxy)
    \/ \E r \in Reqs : VerifyReject(r)

\* C17: a run-verification request that fails, rejected for its missing URL
\* or ended by a workflow error, leaves the pool's descriptors, failed set,
\* cursor and stats as they were, whatever its fields, a proxy included.
C17_FailedRequestLeavesPool == [][FailedRequestStep => UNCHANGED poolVars]_vars

\* The events of request r that the handler itself published: the line it
\* logs on receipt and the error line of its catch block.
OwnEvents(r) ==
    {logged[r][i] : i \in {j \in 1..Len(logged[r]) :
                              logged[r][j].message[1] \in {"received", "error"}}}

\* C18: a request with a URL whose workflow has ended has its one result,
\* with success false and an error text when the workflow failed, and the
\* result carries the session identifier of the request's own events.
C18_ResultOfEnded ==
    \A r \in Reqs :
        (pc[r] = "done" /\ response[r].status # 400) =>
            /\ response[r].sent
            /\ response[r].status = 200
            /\ response[r].sessionId = sid[r]
            /\ OwnEvents(r) # {}
            /\ \A e \in OwnEvents(r) : e.sessionId = response[r].sessionId
            /\ (\E e \in OwnEvents(r) : e.type = "error") =>
                  ~response[r].success /\ response[r].error # ""

\* C18: the identifier is the caller's when the request carries one and a
\* generated one otherwise; no result is sent while the workflow runs, and a
\* result once sent is never replaced by another.
C18_ResultStep ==
    /\ \A r \in Reqs, sessionId \in SessionIds \cup {Undefined}, proxy \in ProxyFields :
          VerifyStart(r, TRUE, sessionId, proxy) =>
              /\ sid'[r] = IF sessionId \in SessionIds THEN sessionId ELSE GeneratedSid(r)
              /\ ~response'[r].sent
    /\ \A r \in Reqs :
          /\ response[r].sent => response'[r] = response[r]
          /\ (pc[r] = "running" /\ pc'[r] = "done") => response'[r].sent

ReloadStep == (\E text \in Texts \ {<<>>} : LoadProxies(text)) \/ ClearProxies

\* C19 as stated: a reload of the pool starts the stats over, so that
\* afterwards no key of the stats is the key of a proxy that is not loaded.
C19_ReloadResetsStats ==
    [][ReloadStep => (proxyStats' = <<>> /\ DOMAIN proxyStats' \subseteq Keys(proxies'))]_vars

\* The number of sendLog listeners registered on the emitter.
ListenerCount == Cardinality({s \in Subs : listening[s]})

\* C20: a subscription starts with an empty stream whatever was published
\* before; a listening subscriber is sent nothing but the event published in
\* the step at hand; the client's close alone takes the listener off, with
\* no step of any request; a stream whose client has gone is sent nothing;
\* and the listeners change by one per subscription opened or closed.
C20_Step ==
    /\ \A s \in Subs :
          /\ (~listening[s] /\ listening'[s]) =>
                received'[s] = <<>> /\ ListenerCount' = ListenerCount + 1
          /\ (listening[s] /\ listening'[s]) =>
                \/ received'[s] = received[s]
                \/ \E r \in Reqs : /\ Publishes(r)
                                   /\ received'[s] = Append(received[s], PublishedBy(r))
          /\ (~listening[s] /\ ~listening'[s]) => received'[s] = received[s]
          /\ (listening[s] /\ ~listening'[s]) =>
                Close(s) /\ ListenerCount' = ListenerCount - 1
          /\ Close(s) => ~listening'[s] /\ UNCHANGED <<globalEmitLog, reqVars>>
    /\ (\A s \in Subs : listening'[s] = listening[s]) => ListenerCount' = ListenerCount

\* C20: one listener per open subscription and none for a closed one, whose
\* stream holds nothing.
C20_Listeners ==
    /\ \A s \in Subs : closed[s] => ~listening[s] /\ received[s] = <<>>
    /\ ListenerCount = Cardinality({s \in Subs : listening[s] /\ ~closed[s]})

\* C20: a subscriber is sent only what is published while it is connected,
\* nothing from before its subscription and nothing after its client's
\* close, which alone deregisters it; the emitter holds one listener per
\* open subscription.
C20_ConnectedOnly == [][C20_Step]_vars /\ []C20_Listeners

\* C20 witness: a request of some session has published two events; a
\* subscriber of that session that closed holds nothing, and another that
\* subscribed after the first event holds the second only.
C20_Witness ==
    \E s, t \in Subs, r \in Reqs :
        /\ closed[s] /\ subSid[s] = sid[r] /\ received[s] = <<>>
        /\ listening[t] /\ subSid[t] = sid[r]
        /\ Len(logged[r]) = 2
        /\ logged[r][1].sessionId = sid[r] /\ logged[r][2].sessionId = sid[r]
        /\ received[t] = <<logged[r][2]>>

\* C21: a testProxy call for a descriptor never throws to its caller and,
\* once the probe request has settled, has resolved to a structured result:
\* working true when the request succeeded, working false with an error
\* text otherwise, also when no agent could be built for the request.
C21_ProbeAlwaysResolves ==
    agentRet # NotCalled =>
        /\ ~agentRet.threw
        /\ agentRet.settled =>
              /\ agentRet.result # NoResult
              /\ ~agentRet.result.working => agentRet.result.error # ""

\* The agent built for the request of the testProxy call, when one was built.
BuiltAgent == agentRet.config.httpsAgent

AgentBuilt ==
    /\ agentRet # NotCalled
    /\ ~agentRet.threw
    /\ agentRet.config # EmptyConfig

\* The host has the five characters s, o, c, k, s in a row somewhere.
HostHasSocks(host) ==
    \E i \in 1..Len(host) :
        /\ i + 4 <= Len(host)
        /\ SubSeq(host, i, i + 4) = <<"s", "o", "c", "k", "s">>

SchemeOf(url) ==
    LET ends == {i \in 1..Len(url) : url[i] = ":"}
    IN  IF ends = {} THEN url
        ELSE SubSeq(url, 1, (CHOOSE i \in ends : \A j \in ends : i <= j) - 1)

\* C22: an agent built for a descriptor is a SOCKS5 agent (with a socks5 URL)
\* exactly when the descriptor's port is 1080 or its host contains "socks",
\* and an HTTP(S) agent (with an http URL) in every other case.
C22_SocksByPortOrHost ==
    AgentBuilt =>
        LET socks == agentArg.port = 1080 \/ HostHasSocks(agentArg.host)
        IN  /\ socks <=> BuiltAgent.kind = "SocksProxyAgent"
            /\ ~socks <=> BuiltAgent.kind = "HttpsProxyAgent"
            /\ socks <=> SchemeOf(BuiltAgent.url) = <<"s", "o", "c", "k", "s", "5">>
            /\ ~socks <=> SchemeOf(BuiltAgent.url) = <<"h", "t", "t", "p">>
            /\ agentRet.config.httpAgent = BuiltAgent

\* A SOCKS5 agent was built for proxy-socks.net:3128, by the host alone.
C22_Witness ==
    /\ AgentBuilt
    /\ agentArg.port = 3128
    /\ agentArg.host = <<"p", "r", "o", "x", "y", "-", "s", "o", "c", "k", "s", ".", "n", "e", "t">>
    /\ BuiltAgent.kind = "SocksProxyAgent"

\* C23: a failure to construct the agent for a descriptor never reaches the
\* caller: the call does not throw, and when no agent came out of it one
\* warning (not an error) was emitted, the request config carries no agent,
\* and the pool is as it was.
C23_ConstructionFailureContained ==
    agentRet # NotCalled =>
        /\ ~agentRet.threw
        /\ agentRet.config.httpsAgent = NoAgent =>
              /\ agentRet.config = EmptyConfig
              /\ Len(agentRet.emitted) = 1
              /\ agentRet.emitted[1].type = "warn"
        /\ proxies = <<>> /\ failedProxies = {} /\ currentIndex = 0

\* C24: the list generateDocumentsParallel returns is as long as docTypes, and
\* its i-th entry is the image generated for the i-th type, or null where the
\* type is not a known one, in whatever order the generators completed.
C24_ResultsByPosition ==
    docPc = "returned" =>
        /\ Len(docResults) = Len(docTypes)
        /\ \A i \in 1..Len(docTypes) :
              docResults[i] = IF docTypes[i] \in KnownDocTypes THEN Document(docTypes[i])
                              ELSE Null

\* The call returned for a list with an unknown type between two known ones,
\* the generator of the last entry having completed before that of the first.
C24_Witness ==
    /\ docPc = "returned"
    /\ Len(docTypes) = 3
    /\ docTypes[1] \in KnownDocTypes
    /\ docTypes[2] \notin KnownDocTypes
    /\ docTypes[3] \in KnownDocTypes
    /\ docTypes[1] # docTypes[3]
    /\ docPromises[3].at < docPromises[1].at

\* No run-verification request is between its receipt and its response.
NoRequestInFlight == \A r \in Reqs : pc[r] # "running"

\* C25: whenever no run-verification request is in flight, global.emitLog is
\* the default emitter, which publishes events with sessionId null, so that
\* a line logged outside any request is not given a finished session's id.
C25_IdleEmitterIsDefault == NoRequestInFlight => globalEmitLog = NullSid

\* A run-verification request starts while another one is running.
OverlappingStart ==
    \E r \in Reqs, url \in BOOLEAN, sessionId \in SessionIds \cup {Undefined},
       proxy \in ProxyFields :
        /\ VerifyStart(r, url, sessionId, proxy)
        /\ \E q \in Reqs \ {r} : pc[q] = "running"

\* C26: a single proxy supplied with a run-verification request is loaded
\* for that request only: with every request completed the pool holds the
\* descriptors it held before them (none, no other caller having loaded any),
\* and a request never replaces the pool under a request that is running.
C26_SuppliedProxyIsTemporary ==
    /\ [](NoRequestInFlight => proxies = <<>>)
    /\ [][OverlappingStart => proxies' = proxies]_vars

\* A markFailed call for a descriptor.
MarkFailedCall == MarkFailed /\ holding # NoProxy

\* After the step, d is left out of what getNext rotates over and of what
\* getRandom may return, and so is every loaded descriptor of d's key, while
\* every descriptor of another key that either could return still can be.
ExcludesKeyOf(d) ==
    /\ \A e \in RotationResults(proxies', failedProxies') \cup
                RandomResults(proxies', failedProxies') : e.raw # d.raw
    /\ \A e \in RotationResults(proxies, failedProxies) :
          e.raw # d.raw => e \in RotationResults(proxies', failedProxies')
    /\ \A e \in RandomResults(proxies, failedProxies) :
          e.raw # d.raw => e \in RandomResults(proxies', failedProxies')

\* Some loaded descriptor is not failed after the step.
SomeLeft == \E i \in 1..Len(proxies') : proxies'[i].raw \notin failedProxies'

\* C27 as stated: after markFailed(d), getNext and getRandom leave out the
\* loaded descriptors of d's key, duplicates included, and none of another
\* key, keys being compared as they are (case and blanks included).
C27_MarkFailedExcludesKey == [][MarkFailedCall => ExcludesKeyOf(holding)]_vars

\* C27: after markFailed(d) that leaves some loaded descriptor not failed,
\* getNext and getRandom leave out the loaded descriptors of d's key,
\* duplicates included, and none of another key, keys being compared as they
\* are (case and blanks included).
C27_MarkFailedExcludesKeyWhileSomeLeft ==
    [][(MarkFailedCall /\ SomeLeft) => ExcludesKeyOf(holding)]_vars

\* The pool holds a descriptor twice and two more whose keys differ from its
\* key, one of them only by the blanks around it; the duplicated one is
\* failed and getNext returned another.
C27_Witness ==
    /\ count = 3
    /\ proxies[1].raw = LineB /\ proxies[2].raw = LinePadded /\ proxies[3].raw = LineB
    /\ failedProxies = {LineB}
    /\ holding # NoProxy /\ holding.raw = LinePadded
    /\ lastPick = "next"

\* C28: getNext and getRandom on an empty pool return no descriptor and
\* leave the failed set, the cursor and the stats as they were; after
\* clear-proxies, count and availableCount are both 0.
C28_EmptyPoolStep ==
    /\ ((GetNext \/ GetRandom) /\ count = 0) =>
          /\ holding' = NoProxy
          /\ UNCHANGED <<failedProxies, currentIndex, proxyStats>>
    /\ ClearProxies =>
          /\ Len(proxies') = 0
          /\ availableCountOf(proxies', failedProxies') = 0

C28_EmptyPoolSelection == [][C28_EmptyPoolStep]_vars

\* C29 as stated: the failed set holds keys of loaded descriptors only.
C29_FailedKeysAreLoaded == failedProxies \subseteq Keys(proxies)

\* C29: the failed set holds only keys that were reported failed, and none
\* of those reported before the last load or clear: it is empty until the
\* first markFailed after a load. A key in it need not be that of a loaded
\* descriptor: a descriptor selected before a reload and reported failed
\* after it puts its key there.
C29_FailedKeysWereReported ==
    /\ clean => failedProxies = {}
    /\ \A k \in failedProxies : StatsOf(proxyStats, k).fail >= 1

\* The pool was emptied by a reload, and a descriptor selected before that
\* was reported failed afterwards: its key is in the failed set of the empty
\* pool.
C29_Witness ==
    /\ count = 0
    /\ ~clean
    /\ holding # NoProxy
    /\ failedProxies = {holding.raw}
    /\ StatsOf(proxyStats, holding.raw).fail = 1

\* What n consecutive getNext calls return, from cursor idx, on pool P with
\* failed set F, no other call coming between them.
RECURSIVE NextCalls(_, _, _, _)
NextCalls(P, idx, F, n) ==
    IF n = 0 THEN <<>>
    ELSE LET o == getNextOutcome(P, idx, F)
         IN  <<o.ret>> \o NextCalls(P, o.currentIndex, o.failedProxies, n - 1)

\* The loaded descriptors that are not failed, in load order.
NonFailed == SelectSeq(proxies, LAMBDA p : p.raw \notin failedProxies)

\* calls is seq read cyclically from some position on, each entry once.
CyclicShift(calls, seq) ==
    /\ Len(calls) = Len(seq)
    /\ \E s \in 0..(Len(seq) - 1) :
          \A j \in 1..Len(seq) : calls[j] = seq[((s + j - 1) % Len(seq)) + 1]

\* C30: with k >= 1 loaded descriptors not failed, k consecutive getNext
\* calls, from whatever cursor value, return each of these k descriptors
\* exactly once, in load order read cyclically.
C30_RotationIsFair ==
    Len(NonFailed) >= 1 =>
        \A idx \in 0..(MaxCursor + 1) :
            CyclicShift(NextCalls(proxies, idx, failedProxies, Len(NonFailed)), NonFailed)

\* Of three loaded descriptors the second is failed, and the getNext call
\* made after that, from cursor 2, returned the first of the two others.
C30_Witness ==
    /\ count = 3
    /\ proxies[2].raw \in failedProxies
    /\ Len(NonFailed) = 2 /\ NonFailed[1] # NonFailed[2]
    /\ currentIndex = 3
    /\ lastPick = "next"
    /\ holding = proxies[1]
    /\ NextCalls(proxies, currentIndex, failedProxies, 2) = <<proxies[3], proxies[1]>>

\* C31: at most one browser launched by getBrowser is connected at a time,
\* and getBrowser calls that have returned and whose browsers are still
\* connected all returned the same browser.
C31_AtMostOneBrowser ==
    /\ Cardinality(connectedBrowsers) <= 1
    /\ \A c, d \in BrowserCallers :
          (/\ getPc[c] = "returned" /\ getRet[c] \in connectedBrowsers
           /\ getPc[d] = "returned" /\ getRet[d] \in connectedBrowsers)
          => getRet[c] = getRet[d]

====
